---- MODULE Spec2Model ----
(***************************************************************************)
(* Model of chatgpt_rs: the ChatGPT client (src/src/client.rs) and the     *)
(* Conversation (src/src/converse.rs).                                     *)
(*                                                                         *)
(* Strings are sequences of one-character strings, so that the JSON        *)
(* written by save_history_json and read by restore_conversation is a      *)
(* sequence of characters with real escaping.  Every `.await` of an HTTP   *)
(* request is a suspension point: send_message is split at it, so calls of *)
(* different Conversations interleave.  restore_conversation is split      *)
(* between its existence check and File::open, where another actor can     *)
(* remove the file.                                                        *)
(***************************************************************************)
EXTENDS Integers, Sequences, FiniteSets, TLC

\* ---------------------------------------------------------------- bounds
MaxHist == 4

\* ------------------------------------------------------------ the inputs
Convs == {"c1", "c2"}
Paths == {"p1"}

SysText == <<"s">>
AText == <<"a">>
QuoteText == <<"\"">>
SlashText == <<"\\">>
BText == <<"b">>
QText == <<"q">>

Texts == {AText, QuoteText}
SimpleTexts == {QText}

Front(s) == SubSeq(s, 1, Len(s) - 1)

IsPrefix(s, t) == Len(s) <= Len(t) /\ SubSeq(t, 1, Len(s)) = s

\* ------------------------------------------------------------- messages
ChatMessage(role, content) == [role |-> role, content |-> content]

A1 == ChatMessage("Assistant", SlashText)
A2 == ChatMessage("Assistant", BText)

\* message_choices of a decoded CompletionResponse
MessageChoice(m) == [message |-> m]

ChoiceSets == {<<>>, <<MessageChoice(A1)>>, <<MessageChoice(A2), MessageChoice(A1)>>}

\* What the remote end does with one POST: the connection fails, or an HTTP
\* answer arrives with a status and a body that decodes or does not.
NetAnswers ==
  {[kind |-> "connect_error", status |-> 0, valid |-> FALSE, choices |-> <<>>]}
  \cup {[kind |-> "http", status |-> st, valid |-> FALSE, choices |-> <<>>] :
          st \in {200, 500}}
  \cup {[kind |-> "http", status |-> st, valid |-> TRUE, choices |-> ch] :
          st \in {200, 500}, ch \in ChoiceSets}

\* ------------------------------------------------ JSON of the history
\* serde_json::to_vec(&self.history): the compact form
\*   [{"role":"user","content":"..."},...]
\* with '"' and '\' escaped in strings.
RoleName(role) ==
  CASE role = "System" -> <<"s", "y", "s", "t", "e", "m">>
    [] role = "User" -> <<"u", "s", "e", "r">>
    [] role = "Assistant" -> <<"a", "s", "s", "i", "s", "t", "a", "n", "t">>

Roles == {"System", "User", "Assistant"}

RECURSIVE Escape(_)
Escape(str) ==
  IF str = <<>> THEN <<>>
  ELSE LET ch == Head(str)
       IN (IF ch \in {"\"", "\\"} THEN <<"\\", ch>> ELSE <<ch>>) \o Escape(Tail(str))

JsonString(str) == <<"\"">> \o Escape(str) \o <<"\"">>

KeyRole == <<"\"", "r", "o", "l", "e", "\"", ":">>
KeyContent == <<"\"", "c", "o", "n", "t", "e", "n", "t", "\"", ":">>

MessageToJson(m) ==
  <<"{">> \o KeyRole \o JsonString(RoleName(m.role)) \o <<",">>
          \o KeyContent \o JsonString(m.content) \o <<"}">>

RECURSIVE JoinMessages(_)
JoinMessages(h) ==
  IF h = <<>> THEN <<>>
  ELSE MessageToJson(Head(h))
       \o (IF Len(h) > 1 THEN <<",">> ELSE <<>>) \o JoinMessages(Tail(h))

to_vec(h) == <<"[">> \o JoinMessages(h) \o <<"]">>

\* serde_json::from_str::<Vec<ChatMessage>>(&buf), on the compact form.  A
\* parse result is [ok, val, next]: next is the index after what was read.
ParseFail == [ok |-> FALSE, val |-> <<>>, next |-> 0]

StartsWith(s, i, lit) ==
  /\ i + Len(lit) - 1 <= Len(s)
  /\ SubSeq(s, i, i + Len(lit) - 1) = lit

RECURSIVE ParseStringBody(_, _, _)
ParseStringBody(s, i, acc) ==
  IF i > Len(s) THEN ParseFail
  ELSE IF s[i] = "\"" THEN [ok |-> TRUE, val |-> acc, next |-> i + 1]
  ELSE IF s[i] = "\\"
    THEN IF i + 1 <= Len(s) /\ s[i + 1] \in {"\"", "\\"}
           THEN ParseStringBody(s, i + 2, Append(acc, s[i + 1]))
           ELSE ParseFail
  ELSE ParseStringBody(s, i + 1, Append(acc, s[i]))

ParseString(s, i) ==
  IF StartsWith(s, i, <<"\"">>) THEN ParseStringBody(s, i + 1, <<>>) ELSE ParseFail

ParseRole(s, i) ==
  LET r == ParseString(s, i)
  IN IF r.ok /\ \E role \in Roles : RoleName(role) = r.val
       THEN [ok |-> TRUE,
             val |-> CHOOSE role \in Roles : RoleName(role) = r.val,
             next |-> r.next]
       ELSE ParseFail

ParseMessage(s, i) ==
  IF ~StartsWith(s, i, <<"{">> \o KeyRole) THEN ParseFail
  ELSE LET r == ParseRole(s, i + 1 + Len(KeyRole))
       IN IF ~r.ok \/ ~StartsWith(s, r.next, <<",">> \o KeyContent) THEN ParseFail
          ELSE LET c == ParseString(s, r.next + 1 + Len(KeyContent))
               IN IF ~c.ok \/ ~StartsWith(s, c.next, <<"}">>) THEN ParseFail
                  ELSE [ok |-> TRUE, val |-> ChatMessage(r.val, c.val),
                        next |-> c.next + 1]

RECURSIVE ParseMessages(_, _, _)
ParseMessages(s, i, acc) ==
  LET m == ParseMessage(s, i)
  IN IF ~m.ok THEN ParseFail
     ELSE IF StartsWith(s, m.next, <<",">>)
       THEN ParseMessages(s, m.next + 1, Append(acc, m.val))
     ELSE IF StartsWith(s, m.next, <<"]">>)
       THEN [ok |-> TRUE, val |-> Append(acc, m.val), next |-> m.next + 1]
     ELSE ParseFail

from_str(s) ==
  LET r == IF ~StartsWith(s, 1, <<"[">>) THEN ParseFail
           ELSE IF StartsWith(s, 2, <<"]">>)
             THEN [ok |-> TRUE, val |-> <<>>, next |-> 3]
           ELSE ParseMessages(s, 2, <<>>)
  IN IF r.ok /\ r.next = Len(s) + 1 THEN r ELSE ParseFail

\* ------------------------------------------------------------ the state
VARIABLES
  pc,         \* per Conversation slot: "none" (not constructed), "idle",
              \* "awaiting" (send_message suspended in send_history),
              \* "restoring" (restore_conversation between exists() and open),
              \* "panicked" (send_message aborted by a panic)
  history,    \* Conversation.history
  request,    \* the CompletionRequest body the suspended send_message posted
  call,       \* the arguments of the last send_message: history before it, text
  trace,      \* per Conversation: the sequence of its own calls and their results
  rpath,      \* the path a restore_conversation in progress was given
  files,      \* the filesystem: path -> [exists, data]
  lastSaved,  \* path -> the history of the last save_history_json that succeeded
  simple,     \* the send_simple_message call: its state, argument and request
  last        \* the last result delivered to a caller

vars == <<pc, history, request, call, trace, rpath, files, lastSaved, simple, last>>

NoFile == [exists |-> FALSE, data |-> <<>>]
NoRequest == [model |-> <<>>, messages |-> <<>>]
NoCall == [H |-> <<>>, text |-> <<>>]
NoSave == [saved |-> FALSE, history |-> <<>>]
NoAnswer == [kind |-> "none", status |-> 0, valid |-> FALSE, choices |-> <<>>]

Result(op, conv, path, result, net) ==
  [op |-> op, conv |-> conv, path |-> path, result |-> result,
   kind |-> net.kind, status |-> net.status, valid |-> net.valid,
   choices |-> net.choices]

\* A file that was at the path before the program ran: a history that does not
\* start with a System message.
PreExisting == [exists |-> TRUE, data |-> to_vec(<<A2>>)]

\* A file holding the empty JSON array: an empty history.
EmptyArray == [exists |-> TRUE, data |-> <<"[", "]">>]

Init ==
  /\ pc = [c \in Convs |-> "none"]
  /\ history = [c \in Convs |-> <<>>]
  /\ request = [c \in Convs |-> NoRequest]
  /\ call = [c \in Convs |-> NoCall]
  /\ trace = [c \in Convs |-> <<>>]
  /\ rpath = [c \in Convs |-> "none"]
  /\ files \in [Paths -> {NoFile, PreExisting, EmptyArray}]
  /\ lastSaved = [p \in Paths |-> NoSave]
  /\ simple = [pc |-> "idle", text |-> <<>>, request |-> NoRequest]
  /\ last = Result("none", "none", "none", "none", NoAnswer)

\* ---------------------------------------------------------------- errors
\* The conversions `?` and Error::from apply (crate::err), by the type of the
\* error converted.  Both failures of an HTTP call, of send() and of json(),
\* are a reqwest::Error and take the same conversion.
ErrorFrom(type) ==
  CASE type = "reqwest::Error" -> "TransportError"
    [] type = "serde_json::Error" -> "ParsingError"
    [] type = "std::io::Error" -> "IOError"

Event(ev, arg) == [ev |-> ev, arg |-> arg]

\* ------------------------------------------------- Conversation::new
new(first_message) == <<ChatMessage("System", first_message)>>

new_with_history(h) == h

new_conversation_directed(c, direction_message) ==
  /\ pc[c] = "none"
  /\ pc' = [pc EXCEPT ![c] = "idle"]
  /\ history' = [history EXCEPT ![c] = new(direction_message)]
  /\ trace' = [trace EXCEPT ![c] = <<Event("new", direction_message)>>]
  /\ last' = Result("new_conversation_directed", c, "none", "Ok", NoAnswer)
  /\ UNCHANGED <<request, call, rpath, files, lastSaved, simple>>

\* a request of the newest message only
CompletionRequest_newest(messages) ==
  [model |-> <<"g", "p", "t", "-", "3", ".", "5", "-", "t", "u", "r", "b", "o">>,
   messages |-> <<messages[Len(messages)]>>]

\* ------------------------------------------------ ChatGPT::send_history
CompletionRequest(messages) ==
  [model |-> <<"g", "p", "t", "-", "3", ".", "5", "-", "t", "u", "r", "b", "o">>,
   messages |-> messages]

\* .send().await? then .json().await.map_err(Error::from): the status of the
\* answer is not looked at.
send_history(net) ==
  IF net.kind = "connect_error"
    THEN [result |-> ErrorFrom("reqwest::Error"), choices |-> <<>>]
  ELSE IF ~net.valid
    THEN [result |-> ErrorFrom("reqwest::Error"), choices |-> <<>>]
  ELSE [result |-> "Ok", choices |-> net.choices]

\* a push that overwrites the last message
push_user_overwrite(h, message) == Append(Front(h), ChatMessage("User", message))

\* -------------------------------------------- Conversation::send_message
push_user(h, message) == Append(h, ChatMessage("User", message))

\* up to the suspension in self.client.send_history(&self.history).await
send_message(c, message) ==
  /\ pc[c] = "idle"
  /\ Len(history[c]) + 2 <= MaxHist
  /\ pc' = [pc EXCEPT ![c] = "awaiting"]
  /\ call' = [call EXCEPT ![c] = [H |-> history[c], text |-> message]]
  /\ history' = [history EXCEPT ![c] = push_user(@, message)]
  /\ request' = [request EXCEPT ![c] = CompletionRequest(history'[c])]
  /\ trace' = [trace EXCEPT ![c] = Append(@, Event("send", message))]
  /\ UNCHANGED <<rpath, files, lastSaved, simple, last>>

\* an error return that takes the User message back
on_error_rollback(h) == Front(h)

\* `?` on the Err of send_history: return, the history as it is
on_error(h) == h

\* the last choice instead of the first
first_choice_last(choices) == choices[Len(choices)].message

\* resp.message_choices[0].message
first_choice(choices) == choices[1].message

\* a history shared by the Conversations of one client
push_reply_shared(hist, c, m) == [d \in DOMAIN hist |-> Append(hist[d], m)]

\* self.history.push(...)
push_reply(hist, c, m) == [hist EXCEPT ![c] = Append(@, m)]

\* from the answer of the remote end to the return (or the panic of the
\* index [0] on an empty message_choices)
send_message_resume(c, net) ==
  /\ pc[c] = "awaiting"
  /\ LET r == send_history(net)
     IN IF r.result # "Ok"
          THEN /\ history' = [history EXCEPT ![c] = on_error(@)]
               /\ pc' = [pc EXCEPT ![c] = "idle"]
               /\ trace' = [trace EXCEPT ![c] = Append(@, Event("err", <<>>))]
               /\ last' = Result("send_message", c, "none", r.result, net)
        ELSE IF r.choices = <<>>
          THEN /\ history' = history
               /\ pc' = [pc EXCEPT ![c] = "panicked"]
               /\ trace' = [trace EXCEPT ![c] = Append(@, Event("panic", <<>>))]
               /\ last' = Result("send_message", c, "none", "panic", net)
        ELSE /\ history' = push_reply(history, c, first_choice(r.choices))
             /\ pc' = [pc EXCEPT ![c] = "idle"]
             /\ trace' = [trace EXCEPT ![c] =
                            Append(@, Event("ok", first_choice(r.choices)))]
             /\ last' = Result("send_message", c, "none", "Ok", net)
  /\ request' = [request EXCEPT ![c] = NoRequest]
  /\ UNCHANGED <<call, rpath, files, lastSaved, simple>>

\* a save of the newest message only
save_bytes_newest(h) == to_vec(IF h = <<>> THEN h ELSE <<h[Len(h)]>>)

\* --------------------------------------- Conversation::save_history_json
\* serde_json::to_vec(&self.history)
save_bytes(h) == to_vec(h)

\* How much of the data a failed write_all has written: nothing, or all but
\* the closing bracket.
PartialLens(bytes) == {0, Len(bytes) - 1}

SaveOutcomes == {"ok", "remove_err", "create_err", "write_err"}

\* The whole call; io is the step of it the filesystem fails, if any.
save_history_json(c, p, io) ==
  /\ pc[c] = "idle"
  /\ io = "remove_err" => files[p].exists
  /\ \E k \in (IF io = "write_err" THEN PartialLens(save_bytes(history[c])) ELSE {0}) :
     LET bytes == save_bytes(history[c])
         written == CASE io = "remove_err" -> files[p]
                      [] io = "create_err" -> NoFile
                      [] io = "write_err" ->
                           [exists |-> TRUE, data |-> SubSeq(bytes, 1, k)]
                      [] io = "ok" -> [exists |-> TRUE, data |-> bytes]
     IN /\ files' = [files EXCEPT ![p] = written]
        /\ lastSaved' = IF io = "ok"
                          THEN [lastSaved EXCEPT ![p] =
                                  [saved |-> TRUE, history |-> history[c]]]
                          ELSE lastSaved
        /\ last' = Result("save_history_json", c, p,
                          IF io = "ok" THEN "Ok" ELSE ErrorFrom("std::io::Error"),
                          [NoAnswer EXCEPT !.kind = io])
  /\ UNCHANGED <<pc, history, request, call, trace, rpath, simple>>

\* -------------------------------------- ChatGPT::restore_conversation
\* if !path.exists() { return Err(ParsingError(..)) }
restore_conversation(c, p) ==
  /\ pc[c] = "none"
  /\ IF ~files[p].exists
       THEN /\ last' = Result("restore_conversation", c, p, "ParsingError",
                              [NoAnswer EXCEPT !.kind = "absent_at_check"])
            /\ UNCHANGED <<pc, rpath>>
       ELSE /\ pc' = [pc EXCEPT ![c] = "restoring"]
            /\ rpath' = [rpath EXCEPT ![c] = p]
            /\ UNCHANGED last
  /\ UNCHANGED <<history, request, call, trace, files, lastSaved, simple>>

RestoreOutcomes == {"ok", "io_err"}

\* File::open(path).await?, read_to_string(..).await?, serde_json::from_str(..)?
\* and Conversation::new_with_history
restore_conversation_open(c, io) ==
  /\ pc[c] = "restoring"
  /\ LET p == rpath[c]
         parsed == from_str(files[p].data)
     IN IF ~files[p].exists
          THEN /\ last' = Result("restore_conversation", c, p, ErrorFrom("std::io::Error"),
                                 [NoAnswer EXCEPT !.kind = "absent_at_open"])
               /\ pc' = [pc EXCEPT ![c] = "none"]
               /\ UNCHANGED <<history, trace>>
        ELSE IF io = "io_err"
          THEN /\ last' = Result("restore_conversation", c, p, ErrorFrom("std::io::Error"),
                                 [NoAnswer EXCEPT !.kind = "io_err"])
               /\ pc' = [pc EXCEPT ![c] = "none"]
               /\ UNCHANGED <<history, trace>>
        ELSE IF ~parsed.ok
          THEN /\ last' = Result("restore_conversation", c, p,
                                 ErrorFrom("serde_json::Error"),
                                 [NoAnswer EXCEPT !.kind = "malformed"])
               /\ pc' = [pc EXCEPT ![c] = "none"]
               /\ UNCHANGED <<history, trace>>
        ELSE /\ last' = Result("restore_conversation", c, p, "Ok",
                               [NoAnswer EXCEPT !.kind = "read"])
             /\ pc' = [pc EXCEPT ![c] = "idle"]
             /\ history' = [history EXCEPT ![c] = new_with_history(parsed.val)]
             /\ trace' = [trace EXCEPT ![c] = <<Event("restored", parsed.val)>>]
  /\ rpath' = [rpath EXCEPT ![c] = "none"]
  /\ UNCHANGED <<request, call, files, lastSaved, simple>>

\* Another actor removes the file.
remove_file_by_another(p) ==
  /\ files[p].exists
  /\ files' = [files EXCEPT ![p] = NoFile]
  /\ UNCHANGED <<pc, history, request, call, trace, rpath, lastSaved, simple, last>>

\* a simple message sent in the System role
send_simple_message_request_system(message) ==
  CompletionRequest(<<ChatMessage("System", message)>>)

\* ------------------------------------------ ChatGPT::send_simple_message
send_simple_message_request(message) ==
  CompletionRequest(<<ChatMessage("User", message)>>)

send_simple_message(message) ==
  /\ simple.pc = "idle"
  /\ simple' = [pc |-> "awaiting", text |-> message,
                request |-> send_simple_message_request(message)]
  /\ UNCHANGED <<pc, history, request, call, trace, rpath, files, lastSaved, last>>

\* .send().await? then .json().await.map_err(Error::from)
send_simple_message_response(net) ==
  IF net.kind = "connect_error" THEN ErrorFrom("reqwest::Error")
  ELSE IF ~net.valid THEN ErrorFrom("reqwest::Error")
  ELSE "Ok"

send_simple_message_resume(net) ==
  /\ simple.pc = "awaiting"
  /\ simple' = [simple EXCEPT !.pc = "idle"]
  /\ last' = Result("send_simple_message", "none", "none",
                    send_simple_message_response(net), net)
  /\ UNCHANGED <<pc, history, request, call, trace, rpath, files, lastSaved>>

\* ----------------------------------------------------- the specifications
\* The send flows: two Conversations of one client and send_simple_message,
\* every answer of the remote end, no file.
NextSend ==
  \/ \E c \in Convs : new_conversation_directed(c, SysText)
  \/ \E c \in Convs, t \in Texts : send_message(c, t)
  \/ \E c \in Convs, net \in NetAnswers : send_message_resume(c, net)
  \/ \E t \in SimpleTexts : send_simple_message(t)
  \/ \E net \in NetAnswers : send_simple_message_resume(net)

InitSend == Init /\ files = [p \in Paths |-> NoFile]

SpecSend == InitSend /\ [][NextSend]_vars

\* The file flows: c1 is constructed or restored and c2 restored, both send
\* and save, and another actor removes files.
FileTexts == {QuoteText}

FileAnswers == {net \in NetAnswers :
                  \/ net.kind = "connect_error"
                  \/ net.status = 200 /\ net.valid /\ Len(net.choices) = 1}

NextFiles ==
  \/ new_conversation_directed("c1", SysText)
  \/ \E c \in Convs, t \in FileTexts : send_message(c, t)
  \/ \E c \in Convs, net \in FileAnswers : send_message_resume(c, net)
  \/ \E c \in Convs, p \in Paths, io \in SaveOutcomes : save_history_json(c, p, io)
  \/ \E c \in Convs, p \in Paths : restore_conversation(c, p)
  \/ \E c \in Convs, io \in RestoreOutcomes : restore_conversation_open(c, io)
  \/ \E p \in Paths : remove_file_by_another(p)

SpecFiles == Init /\ [][NextFiles]_vars

\* ================================================================ claims
UserMsg(t) == ChatMessage("User", t)

SendReturned(c) == last.op = "send_message" /\ last.conv = c /\ pc[c] = "idle"

\* C1: a send_message that returns Ok(R) leaves the history equal to the
\* history before the call followed by the User message of its text and then
\* the message of R's first choice, two messages longer.
C1_SendOkAppendsUserAndFirstChoice ==
  \A c \in Convs :
    SendReturned(c) /\ last.result = "Ok" =>
      /\ history[c] = call[c].H \o <<UserMsg(call[c].text), last.choices[1].message>>
      /\ Len(history[c]) = Len(call[c].H) + 2

C1_Witness ==
  \E c \in Convs :
    /\ SendReturned(c) /\ last.result = "Ok"
    /\ Len(last.choices) = 2
    /\ call[c].H = new(SysText)
    /\ Len(history[c]) = 3
    /\ <<history[c][1].role, history[c][2].role, history[c][3].role>>
         = <<"System", "User", "Assistant">>

\* C2: a send_message that returns a TransportError or a ParsingError leaves
\* the history equal to the history before the call followed by the User
\* message only.
C2_SendErrKeepsUserOnly ==
  \A c \in Convs :
    SendReturned(c) /\ last.result \in {"TransportError", "ParsingError"} =>
      history[c] = call[c].H \o <<UserMsg(call[c].text)>>

C2_Witness ==
  \E c \in Convs :
    /\ SendReturned(c) /\ last.result = "TransportError"
    /\ call[c].H = new(SysText)
    /\ Len(history[c]) = 2

\* C3: a restore_conversation that succeeds on a path after a
\* save_history_json succeeded on it, with no later save, constructs a
\* Conversation whose history is the saved history.
C3_SaveRestoreRoundTrip ==
  \A c \in Convs, p \in Paths :
    /\ last.op = "restore_conversation" /\ last.conv = c /\ last.path = p
    /\ last.result = "Ok"
    /\ lastSaved[p].saved
    /\ Len(trace[c]) = 1
    => history[c] = lastSaved[p].history

C3_Witness ==
  \E c \in Convs, p \in Paths :
    /\ last.op = "restore_conversation" /\ last.conv = c /\ last.path = p
    /\ last.result = "Ok"
    /\ lastSaved[p].saved
    /\ Len(trace[c]) = 1
    /\ Len(history[c]) = 3
    /\ history[c][1].role = "Assistant"
    /\ history[c][2].content = QuoteText
    /\ history[c][3].content = SlashText

\* C4: a restore_conversation that finds no file at the path, at its
\* existence check or at the open, fails with ParsingError and constructs no
\* Conversation.
C4_AbsentFileIsParsingError ==
  last.op = "restore_conversation" /\ last.kind \in {"absent_at_check", "absent_at_open"}
    => last.result = "ParsingError" /\ pc[last.conv] = "none"

\* C5: an HTTP call answered with a status outside 200..299 fails with
\* TransportError, and send_message then appends no Assistant message.
C5_Non2xxIsTransportError ==
  last.op = "send_message" /\ last.kind = "http" /\ last.status \notin 200..299
    => /\ last.result = "TransportError"
       /\ \A c \in Convs :
            SendReturned(c) => history[c] = call[c].H \o <<UserMsg(call[c].text)>>

\* C6: the request a suspended send_message has posted carries the whole
\* history: the history before the call followed by the User message of its
\* text.
C6_RequestIsWholeHistory ==
  \A c \in Convs :
    pc[c] = "awaiting" =>
      request[c].messages = call[c].H \o <<UserMsg(call[c].text)>>

C6_Witness ==
  \E c \in Convs :
    /\ pc[c] = "awaiting"
    /\ Len(call[c].H) = 2
    /\ call[c].H[2].role = "User"
    /\ call[c].H[2].content # call[c].text
    /\ Len(request[c].messages) = 3

\* C7: every step leaves the history of every constructed Conversation a
\* prefix of its next history, and a save_history_json leaves every history
\* as it is.
C7_HistoryAppendOnly ==
  [][/\ \A c \in Convs :
          pc[c] \in {"idle", "awaiting", "panicked"} => IsPrefix(history[c], history'[c])
     /\ (last'.op = "save_history_json" /\ last' # last => history' = history)]_vars

C7_Witness ==
  \E c \in Convs :
    /\ last.op = "save_history_json" /\ last.conv = c /\ last.result = "Ok"
    /\ Len(history[c]) = 4
    /\ history[c][1].role = "System"
    /\ history[c][3].role = "User"

\* C8: the request of send_simple_message is the one User message of its
\* text, no message of it reaches a Conversation's history or request, and no
\* step of it changes a Conversation.
C8_SimpleMessageIsStateless ==
  /\ [](simple.pc = "awaiting" => simple.request.messages = <<UserMsg(simple.text)>>)
  /\ [](\A c \in Convs :
          /\ \A i \in 1..Len(history[c]) : history[c][i].content # QText
          /\ \A i \in 1..Len(request[c].messages) :
               request[c].messages[i].content # QText)
  /\ [][simple' # simple => history' = history /\ request' = request]_vars

C8_Witness ==
  /\ simple.pc = "awaiting"
  /\ last.op = "send_simple_message"
  /\ \E c \in Convs : pc[c] = "awaiting" /\ Len(history[c]) = 3

\* C9: every send_message ends with a CompletionResponse, a TransportError or
\* a ParsingError delivered to the caller, and with the history before the
\* call followed by the User message when the response has no choices.
C9_SendAlwaysReturns ==
  last.op = "send_message" =>
    /\ last.result \in {"Ok", "TransportError", "ParsingError"}
    /\ (last.kind = "http" /\ last.valid /\ last.choices = <<>> =>
          history[last.conv] = call[last.conv].H \o <<UserMsg(call[last.conv].text)>>)

\* C10: the history of every Conversation, and the request it has posted, is
\* what its own calls alone produce, however the calls of the Conversations
\* interleave.
RECURSIVE Alone(_)
Alone(tr) ==
  IF tr = <<>> THEN <<>>
  ELSE LET e == tr[Len(tr)]
           h == Alone(Front(tr))
       IN CASE e.ev = "new" -> <<ChatMessage("System", e.arg)>>
            [] e.ev = "restored" -> e.arg
            [] e.ev = "send" -> Append(h, UserMsg(e.arg))
            [] e.ev = "ok" -> Append(h, e.arg)
            [] e.ev \in {"err", "panic"} -> h

C10_ConversationsAreIsolated ==
  \A c \in Convs :
    pc[c] # "none" =>
      /\ history[c] = Alone(trace[c])
      /\ pc[c] = "awaiting" => request[c].messages = Alone(trace[c])

C10_Witness ==
  /\ pc["c1"] = "awaiting" /\ pc["c2"] = "awaiting"
  /\ Len(history["c1"]) = 3
  /\ Len(history["c2"]) = 2
  /\ call["c1"].text # call["c2"].text
====
